---- MODULE Spec2Model ----
(***************************************************************************)
(* Model of src/pvm_foundation.rs: the PVMBytecode struct and the two      *)
(* placeholder functions disassemble and assemble, called by concurrent    *)
(* callers (one thread per call) and composed as in tests::test_round_trip.*)
(***************************************************************************)
EXTENDS Integers, Sequences, FiniteSets, TLC

(* ------------------------------ bounds --------------------------------- *)

\* byte values 0..MaxByte, plus u8::MAX, stand for the u8 range
MaxByte == 1

\* every byte sequence of at most MaxLen bytes is a possible argument
MaxLen == 3

\* longer arguments (zero-filled) up to MaxRun bytes, so that the decimal
\* rendering of the length has more than one digit
MaxRun == 11

Threads == {"t1", "t2"}

Bytes == {b \in 0..255 : b <= MaxByte \/ b = 255}

\* the buffer of tests::test_round_trip
TestVector == <<1, 2, 3>>

ZeroRun(n) == [i \in 1..n |-> 0]

Inputs ==
    UNION {[1..n -> Bytes] : n \in 0..MaxLen}
        \cup {ZeroRun(n) : n \in 0..MaxRun}
        \cup {TestVector}

(* --------------------------- std helpers ------------------------------- *)

\* Result<T, String>
Ok(v) == [tag |-> "Ok", value |-> v]

\* not yet returned
None == [tag |-> "None"]

\* HashMap::new()
HashMap_new == [k \in {} |-> <<>>]

\* HashMap::insert(key, value): replaces the value of an existing key
insert(m, k, v) ==
    [x \in DOMAIN m \cup {k} |-> IF x = k THEN v ELSE m[x]]

Digit == <<"0", "1", "2", "3", "4", "5", "6", "7", "8", "9">>

to_string_last_digit(n) == <<Digit[(n % 10) + 1]>>

\* usize::to_string(): the decimal digits, most significant first, as the
\* sequence of the string's characters
RECURSIVE to_string(_)
to_string(n) ==
    IF n < 10 THEN <<Digit[n + 1]>>
    ELSE to_string(n \div 10) \o <<Digit[(n % 10) + 1]>>

to_vec_truncated(s) == [i \in 1..(IF Len(s) = 0 THEN 0 ELSE Len(s) - 1) |-> s[i]]

\* <[u8]>::to_vec(): a fresh vector holding a copy of every element
to_vec(s) == [i \in 1..Len(s) |-> s[i]]

\* struct PVMBytecode { opcodes, metadata }
PVMBytecode(ops, md) == [opcodes |-> ops, metadata |-> md]

(* ---------------------------- the functions ---------------------------- *)

\* body of disassemble up to the insert: the metadata local
disassemble_metadata(b) == insert(HashMap_new, "length", to_string(Len(b)))

disassemble_return_padded(b, md) ==
    Ok(PVMBytecode(IF b = <<>> THEN <<0>> ELSE to_vec(b), md))

\* the value disassemble returns, given its argument and its metadata local
disassemble_return(b, md) == Ok(PVMBytecode(to_vec(b), md))

\* disassemble as a function of its argument (one call, run alone)
disassemble(b) == disassemble_return(b, disassemble_metadata(b))

Reverse(s) == [i \in 1..Len(s) |-> s[Len(s) + 1 - i]]

assemble_reversed(ops) == Ok(Reverse(to_vec(ops)))

assemble_checked(ops) ==
    IF \E i \in 1..Len(ops) : ops[i] = 255
    THEN [tag |-> "Err", error |-> "InvalidOperand"]
    ELSE Ok(to_vec(ops))

\* assemble as a function of its argument
assemble(ops) == Ok(to_vec(ops))

(* ------------------------------- state --------------------------------- *)

VARIABLES
    pc,            \* position of each caller
    bytecode,      \* the caller's buffer borrowed by disassemble
    metadata,      \* disassemble's local `metadata`, one per stack frame
    disassembled,  \* what disassemble returned to the caller
    opcodes,       \* the caller's buffer borrowed by assemble
    assembled      \* what assemble returned to the caller

vars == <<pc, bytecode, metadata, disassembled, opcodes, assembled>>

Frame_shared(t) == "t1"

\* the stack frame that holds the locals of thread t's call
Frame(t) == t

Init ==
    /\ pc = [t \in Threads |-> "idle"]
    /\ bytecode = [t \in Threads |-> <<>>]
    /\ metadata = [t \in Threads |-> HashMap_new]
    /\ disassembled = [t \in Threads |-> None]
    /\ opcodes = [t \in Threads |-> <<>>]
    /\ assembled = [t \in Threads |-> None]

\* a caller passes its buffer to disassemble
CallDisassemble(t, b) ==
    /\ pc[t] = "idle"
    /\ bytecode' = [bytecode EXCEPT ![t] = b]
    /\ pc' = [pc EXCEPT ![t] = "dis_entry"]
    /\ UNCHANGED <<metadata, disassembled, opcodes, assembled>>

\* let mut metadata = HashMap::new(); metadata.insert("length", len.to_string())
DisassembleInsert(t) ==
    /\ pc[t] = "dis_entry"
    /\ metadata' = [metadata EXCEPT ![Frame(t)] = disassemble_metadata(bytecode[t])]
    /\ pc' = [pc EXCEPT ![t] = "dis_insert"]
    /\ UNCHANGED <<bytecode, disassembled, opcodes, assembled>>

\* Ok(PVMBytecode { opcodes: bytecode.to_vec(), metadata }): metadata is moved
DisassembleReturn(t) ==
    /\ pc[t] = "dis_insert"
    /\ disassembled' = [disassembled EXCEPT
                           ![t] = disassemble_return(bytecode[t], metadata[Frame(t)])]
    /\ metadata' = [metadata EXCEPT ![Frame(t)] = HashMap_new]
    /\ pc' = [pc EXCEPT ![t] = "dis_done"]
    /\ UNCHANGED <<bytecode, opcodes, assembled>>

\* test_round_trip: assemble(&disassembled.opcodes) after unwrap()
CallAssembleDisassembled(t) ==
    /\ pc[t] = "dis_done"
    /\ disassembled[t].tag = "Ok"
    /\ opcodes' = [opcodes EXCEPT ![t] = disassembled[t].value.opcodes]
    /\ pc' = [pc EXCEPT ![t] = "asm_entry"]
    /\ UNCHANGED <<bytecode, metadata, disassembled, assembled>>

\* a caller passes a buffer of its own to assemble
CallAssemble(t, ops) ==
    /\ pc[t] = "idle"
    /\ opcodes' = [opcodes EXCEPT ![t] = ops]
    /\ pc' = [pc EXCEPT ![t] = "asm_entry"]
    /\ UNCHANGED <<bytecode, metadata, disassembled, assembled>>

Assemble_shared_scratch(t) ==
    /\ pc[t] = "asm_entry"
    /\ assembled' = [assembled EXCEPT ![t] =
           IF \E u \in Threads \ {t} : pc[u] = "asm_entry"
           THEN assemble(opcodes[CHOOSE u \in Threads \ {t} : pc[u] = "asm_entry"])
           ELSE assemble(opcodes[t])]
    /\ pc' = [pc EXCEPT ![t] = "asm_done"]
    /\ UNCHANGED <<bytecode, metadata, disassembled, opcodes>>

\* Ok(opcodes.to_vec())
Assemble(t) ==
    /\ pc[t] = "asm_entry"
    /\ assembled' = [assembled EXCEPT ![t] = assemble(opcodes[t])]
    /\ pc' = [pc EXCEPT ![t] = "asm_done"]
    /\ UNCHANGED <<bytecode, metadata, disassembled, opcodes>>

\* the caller drops the results and its buffers
Return(t) ==
    /\ pc[t] \in {"dis_done", "asm_done"}
    /\ pc' = [pc EXCEPT ![t] = "idle"]
    /\ bytecode' = [bytecode EXCEPT ![t] = <<>>]
    /\ disassembled' = [disassembled EXCEPT ![t] = None]
    /\ opcodes' = [opcodes EXCEPT ![t] = <<>>]
    /\ assembled' = [assembled EXCEPT ![t] = None]
    /\ UNCHANGED metadata

Next ==
    \/ \E t \in Threads, b \in Inputs : CallDisassemble(t, b)
    \/ \E t \in Threads : DisassembleInsert(t)
    \/ \E t \in Threads : DisassembleReturn(t)
    \/ \E t \in Threads : CallAssembleDisassembled(t)
    \/ \E t \in Threads, ops \in Inputs : CallAssemble(t, ops)
    \/ \E t \in Threads : Assemble(t)
    \/ \E t \in Threads : Return(t)

Spec == Init /\ [][Next]_vars

(* ------------- the Instruction Table of the specification -------------- *)

\* a representative table: NOP has no operand, PUSH has one fixed-width
\* immediate whose declared width is 7 bits; every other opcode is unassigned
InstructionTable ==
    (0 :> [mnemonic |-> "NOP", operand_count |-> 0, encoding |-> "none",
           length |-> 1, operand_bits |-> 0])
    @@ (1 :> [mnemonic |-> "PUSH", operand_count |-> 1, encoding |-> "fixed",
              length |-> 2, operand_bits |-> 7])

\* lookup(opcode) -> Option<InstructionDescriptor>, total over 0..255
lookup(op) ==
    IF op \in DOMAIN InstructionTable
    THEN [found |-> TRUE, descriptor |-> InstructionTable[op]]
    ELSE [found |-> FALSE]

\* the outcome the left-to-right scan of the specification has on buffer b,
\* from the 0-based offset off
RECURSIVE ScanFrom(_, _)
ScanFrom(b, off) ==
    IF off >= Len(b) THEN [kind |-> "Ok"]
    ELSE IF ~lookup(b[off + 1]).found
    THEN [kind |-> "UnknownOpcode", offset |-> off, value |-> b[off + 1]]
    ELSE LET len == lookup(b[off + 1]).descriptor.length IN
         IF off + len > Len(b)
         THEN [kind |-> "TruncatedInstruction", offset |-> off,
               expected_len |-> len, available_len |-> Len(b) - off]
         ELSE ScanFrom(b, off + len)

\* some instruction of the program b, scanned from offset off, holds an
\* operand value that does not fit its descriptor's declared width
RECURSIVE OperandOutOfRange(_, _)
OperandOutOfRange(b, off) ==
    IF off >= Len(b) \/ ~lookup(b[off + 1]).found THEN FALSE
    ELSE LET d == lookup(b[off + 1]).descriptor IN
         IF off + d.length > Len(b) THEN FALSE
         ELSE \/ \E i \in 1..d.operand_count : b[off + 1 + i] >= 2^(d.operand_bits)
              \/ OperandOutOfRange(b, off + d.length)

(* ------------------------------- claims -------------------------------- *)

\* the caller of thread t went through disassemble and holds its result
Disassembled(t) == disassembled[t].tag # "None"

\* C1: round trip. Whenever disassemble accepted a buffer and assemble was then
\* applied to the opcodes it returned, assemble returned Ok with exactly the
\* bytes of the original buffer.
C1_RoundTrip ==
    \A t \in Threads :
        (pc[t] = "asm_done" /\ disassembled[t].tag = "Ok")
            => /\ assembled[t].tag = "Ok"
               /\ assembled[t].value = bytecode[t]

C1_Witness ==
    \E t \in Threads :
        /\ pc[t] = "asm_done"
        /\ disassembled[t].tag = "Ok"
        /\ bytecode[t] = TestVector
        /\ opcodes[t] = disassembled[t].value.opcodes

\* C2: a buffer whose scan meets an opcode byte absent from the Instruction
\* Table makes disassemble fail with UnknownOpcode carrying that byte's offset
\* and value.
C2_UnknownOpcodeRejected ==
    \A t \in Threads :
        (Disassembled(t) /\ ScanFrom(bytecode[t], 0).kind = "UnknownOpcode")
            => /\ disassembled[t].tag = "Err"
               /\ disassembled[t].error = ScanFrom(bytecode[t], 0)

\* C3: a buffer that ends before the declared length of its last instruction
\* makes disassemble fail with TruncatedInstruction carrying the offset, the
\* expected length and the available length.
C3_TruncationRejected ==
    \A t \in Threads :
        (Disassembled(t) /\ ScanFrom(bytecode[t], 0).kind = "TruncatedInstruction")
            => /\ disassembled[t].tag = "Err"
               /\ disassembled[t].error = ScanFrom(bytecode[t], 0)

\* C4: disassemble of the empty buffer returns Ok with no opcodes, and assemble
\* of the empty program returns Ok with no bytes.
C4_EmptyInput ==
    \A t \in Threads :
        /\ (pc[t] = "dis_done" /\ bytecode[t] = <<>>)
              => /\ disassembled[t].tag = "Ok"
                 /\ Len(disassembled[t].value.opcodes) = 0
        /\ (pc[t] = "asm_done" /\ opcodes[t] = <<>>)
              => /\ assembled[t].tag = "Ok"
                 /\ Len(assembled[t].value) = 0

C4_Witness ==
    \E t, u \in Threads :
        /\ pc[t] = "dis_done" /\ bytecode[t] = <<>>
        /\ pc[u] = "asm_done" /\ opcodes[u] = <<>> /\ ~Disassembled(u)

\* the raw byte spans of the returned program: one span per entry of opcodes
RawSpans(p) == [i \in 1..Len(p.opcodes) |-> <<p.opcodes[i]>>]

RECURSIVE Concat(_)
Concat(spans) ==
    IF spans = <<>> THEN <<>> ELSE Head(spans) \o Concat(Tail(spans))

RECURSIVE TotalLen(_)
TotalLen(spans) ==
    IF spans = <<>> THEN 0 ELSE Len(Head(spans)) + TotalLen(Tail(spans))

\* C5: on every successful disassemble the spans of the returned program add up
\* to the input length, and their concatenation in order is the input buffer.
C5_Reconstruction ==
    \A t \in Threads :
        disassembled[t].tag = "Ok"
            => /\ TotalLen(RawSpans(disassembled[t].value)) = Len(bytecode[t])
               /\ Concat(RawSpans(disassembled[t].value)) = bytecode[t]

C5_Witness ==
    \E t \in Threads :
        /\ pc[t] = "dis_done"
        /\ disassembled[t].tag = "Ok"
        /\ Len(bytecode[t]) = MaxLen
        /\ \E i, j \in 1..Len(bytecode[t]) : bytecode[t][i] # bytecode[t][j]

C7_OperandRangeRejected ==
    \A t \in Threads :
        (pc[t] = "asm_done" /\ OperandOutOfRange(opcodes[t], 0))
            => /\ assembled[t].tag = "Err"
               /\ assembled[t].error = "InvalidOperand"

\* C8: a call leaves the caller's buffers as they were, and under every
\* interleaving with the other calls it returns the result the same call
\* returns when run alone on its argument.
C8_NoInterference ==
    [][\A t \in Threads :
          /\ pc[t] \in {"dis_entry", "dis_insert"} => bytecode'[t] = bytecode[t]
          /\ pc[t] = "asm_entry"
                => opcodes'[t] = opcodes[t] /\ bytecode'[t] = bytecode[t]
          /\ (pc[t] = "dis_insert" /\ pc'[t] = "dis_done")
                => disassembled'[t] = disassemble(bytecode[t])
          /\ (pc[t] = "asm_entry" /\ pc'[t] = "asm_done")
                => assembled'[t] = assemble(opcodes[t])]_vars

C8_Witness ==
    /\ pc["t1"] = "dis_done"
    /\ pc["t2"] = "dis_insert"
    /\ Len(bytecode["t1"]) # Len(bytecode["t2"])

\* C9: neither function ever returns Err, and the bytes each returns are an
\* element-wise copy of its argument, of the same length.
C9_TotalCopy ==
    \A t \in Threads :
        /\ Disassembled(t)
              => /\ disassembled[t].tag = "Ok"
                 /\ Len(disassembled[t].value.opcodes) = Len(bytecode[t])
                 /\ \A i \in 1..Len(bytecode[t]) :
                        disassembled[t].value.opcodes[i] = bytecode[t][i]
        /\ pc[t] = "asm_done"
              => /\ assembled[t].tag = "Ok"
                 /\ Len(assembled[t].value) = Len(opcodes[t])
                 /\ \A i \in 1..Len(opcodes[t]) :
                        assembled[t].value[i] = opcodes[t][i]

C9_Witness ==
    \E t, u \in Threads :
        /\ pc[t] = "dis_done" /\ \E i \in 1..Len(bytecode[t]) : bytecode[t][i] = 255
        /\ pc[u] = "asm_done" /\ \E i \in 1..Len(opcodes[u]) : opcodes[u][i] = 255

\* the value of a decimal digit character
DigitValue(c) == (CHOOSE i \in 1..10 : Digit[i] = c) - 1

\* the number a sequence of decimal digit characters denotes
RECURSIVE ParseDecimal(_)
ParseDecimal(s) ==
    IF s = <<>> THEN 0
    ELSE 10 * ParseDecimal(SubSeq(s, 1, Len(s) - 1)) + DigitValue(s[Len(s)])

\* s is the decimal string of n: digits only, no leading zero, value n
IsDecimalOf(s, n) ==
    /\ Len(s) >= 1
    /\ \A i \in 1..Len(s) : \E d \in 1..10 : Digit[d] = s[i]
    /\ Len(s) > 1 => s[1] # "0"
    /\ ParseDecimal(s) = n

\* C10: the metadata returned by disassemble has the one key "length", whose
\* value is the decimal string of the number of input bytes, which is also the
\* number of returned opcodes.
C10_MetadataLength ==
    \A t \in Threads :
        Disassembled(t)
            => /\ disassembled[t].tag = "Ok"
               /\ DOMAIN disassembled[t].value.metadata = {"length"}
               /\ IsDecimalOf(disassembled[t].value.metadata["length"],
                              Len(bytecode[t]))
               /\ IsDecimalOf(disassembled[t].value.metadata["length"],
                              Len(disassembled[t].value.opcodes))

C10_Witness ==
    \E t \in Threads :
        /\ pc[t] = "dis_done"
        /\ Len(bytecode[t]) >= 10
        /\ Len(disassembled[t].value.metadata["length"]) = 2

====
